---- MODULE Spec2Model ----
(***************************************************************************)
(* Petalbyte backup manager: the backup orchestrator (BackupEngine), its   *)
(* retention phases (CleanupManager, SnapshotManager), the Sent-Ledger,    *)
(* and the admission of backup / restore runs (API handlers, scheduler).   *)
(*                                                                         *)
(* Two specifications share the module:                                    *)
(*   SpecAdmit  the start handlers, the scheduler trigger and the engines' *)
(*              single-flight slots, with runs as concurrent tasks;        *)
(*   Spec       one perform_backup execution at a time, step by step, over *)
(*              the local snapshots, the ledger and the remote host.       *)
(*                                                                         *)
(* The persistence layer is modelled by the tables database.py declares: a *)
(* query returns the rows its SQL text selects, an insert stores the row   *)
(* that was built, and either may fail as a fault of the environment.      *)
(***************************************************************************)
EXTENDS Integers, Sequences, FiniteSets, TLC

VARIABLES
    \* ---- admission (SpecAdmit) ----
    engines,          \* BackupEngine instance -> [current_backup, cancel_requested]
    runs,             \* perform_backup tasks, in order of creation
    is_running,       \* RestoreEngine.is_running
    restores,         \* perform_restore tasks, in order of creation
    progress_connections, \* ConnectionManager.progress_connections
    progress_callbacks,   \* BackupEngine instance -> number of callbacks registered
    received,         \* client -> progress snapshots received so far
    \* ---- one backup run in detail (Spec) ----
    now,              \* wall clock, in ticks (one tick = one hour)
    local,            \* snapshot directory: set of [subvolume, timestamp, ctime]
    ledger,           \* sent_snapshots table
    remote,           \* remote files: set of [path, size, mtime]
    rdirs,            \* remote month directories
    history,          \* backup_history table (append-only)
    current_backup,   \* BackupEngine.current_backup (a BackupProgress or NoProgress)
    cancel_requested, \* BackupEngine.cancel_requested
    pc,               \* position of the run in perform_backup
    run,              \* locals of the run in progress
    faults,           \* failures of the environment injected so far
    cancels,          \* cancel requests issued so far
    \* ---- one restore in detail (SpecRestore) ----
    rpc,              \* position of the restore in perform_restore
    restore,          \* locals of the restore in progress
    temp_dir,         \* the scratch directory of _restore_snapshot: NoDir or its files
    restored,         \* subvolumes received at their restore path
    \* ---- a host that stops responding (SpecLive) ----
    hung,             \* the run awaits a remote command that never returns
    \* ---- the monthly purge month by month (SpecPurge) ----
    purge             \* locals of cleanup_old_monthly_backups

wsVars == <<progress_connections, progress_callbacks, received>>
admitVars == <<engines, runs, is_running, restores, wsVars>>
restoreVars == <<rpc, restore, temp_dir, restored>>
vars == <<engines, runs, is_running, restores, wsVars, now, local, ledger, remote,
          rdirs, history, current_backup, cancel_requested, pc, run, faults,
          cancels, restoreVars, hung, purge>>

None == "None"

\* What a step of one specification leaves alone of the other's state.
RunFrame == UNCHANGED <<engines, runs, is_running, restores, wsVars, cancels,
                        restoreVars, hung, purge>>

AdmitFrame == UNCHANGED <<now, local, ledger, remote, rdirs, history, current_backup,
                          cancel_requested, pc, run, faults, cancels, restoreVars,
                          hung, purge>>

RestoreFrame == UNCHANGED <<engines, runs, is_running, restores, wsVars, cancels,
                            now, local, ledger, remote, rdirs, history,
                            current_backup, cancel_requested, pc, run, hung,
                            purge>>

(***************************************************************************)
(* Bounds of the model                                                     *)
(***************************************************************************)
MaxRequests == 3
MaxRestores == 2

(***************************************************************************)
(* Admission: engines, start handlers, scheduler trigger                   *)
(***************************************************************************)
\* The API keeps one global engine (api/backup.py:19); the scheduler builds
\* its own (core/scheduler.py:30).
Engines == {"api", "sched"}

\* Clients of /ws/progress. Each connection builds a BackupEngine of its own
\* (api/websocket.py:146), named here after the client.
Clients == {"c1", "c2"}

\* A step that leaves the WebSocket side alone.
WsFrame == UNCHANGED wsVars

\* manager.send_progress: one message to each progress connection.
send_progress(rcv) ==
    [c \in Clients |-> IF c \in progress_connections THEN rcv[c] + 1 ELSE rcv[c]]

\* _update_progress on engine e: for callback in self.progress_callbacks:
\* await callback(self.current_backup).
Publish(e) == IF progress_callbacks[e] > 0 THEN send_progress(received) ELSE received

NewEngine == [current_backup |-> 0, cancel_requested |-> FALSE]

ActiveRuns == {i \in DOMAIN runs : runs[i].pc = "running"}

ActiveRestores == {i \in DOMAIN restores : restores[i].pc = "running"}

\* POST /backup/start: 409 when the API engine's slot is occupied, otherwise
\* the run is handed to the background tasks and the reply is sent.
start_backup ==
    /\ Len(runs) < MaxRequests
    /\ IF engines["api"].current_backup # 0
         THEN runs' = Append(runs, [origin |-> "api", engine |-> "api",
                                    reply |-> 409, pc |-> "rejected", step |-> 0])
         ELSE runs' = Append(runs, [origin |-> "api", engine |-> "api",
                                    reply |-> 200, pc |-> "queued", step |-> 0])
    /\ UNCHANGED <<engines, is_running, restores>>
    /\ WsFrame
    /\ AdmitFrame

\* perform_backup up to its first suspension: clears the cancel flag and
\* publishes step 1, which occupies the slot.
BeginRunOn(e) == [engines EXCEPT ![e] = [current_backup |-> 1, cancel_requested |-> FALSE]]

\* The background task of an accepted request starts.
run_backup(i) ==
    /\ i \in DOMAIN runs
    /\ runs[i].pc = "queued"
    /\ runs' = [runs EXCEPT ![i].pc = "running", ![i].step = 1]
    /\ engines' = BeginRunOn(runs[i].engine)
    /\ received' = Publish(runs[i].engine)
    /\ UNCHANGED <<is_running, restores, progress_connections, progress_callbacks>>
    /\ AdmitFrame

\* The cron trigger fires. APScheduler runs at most one instance of the job
\* (max_instances defaults to 1); the callback itself checks nothing.
CronMayFire == \A i \in DOMAIN runs : ~(runs[i].origin = "cron" /\ runs[i].pc = "running")

run_scheduled_backup ==
    /\ Len(runs) < MaxRequests
    /\ CronMayFire
    /\ runs' = Append(runs, [origin |-> "cron", engine |-> "sched",
                             reply |-> 0, pc |-> "running", step |-> 1])
    /\ engines' = BeginRunOn("sched")
    /\ received' = Publish("sched")
    /\ UNCHANGED <<is_running, restores, progress_connections, progress_callbacks>>
    /\ AdmitFrame

\* A later _update_progress of a running task (here: the last step) writes
\* the slot of its engine again.
AdmitProgress(i) ==
    /\ i \in ActiveRuns
    /\ runs[i].step < 7
    /\ runs' = [runs EXCEPT ![i].step = 7]
    /\ engines' = [engines EXCEPT ![runs[i].engine].current_backup = 7]
    /\ received' = Publish(runs[i].engine)
    /\ UNCHANGED <<is_running, restores, progress_connections, progress_callbacks>>
    /\ AdmitFrame

\* The finally block of perform_backup (reached from any step: completion or
\* an exception): the slot is cleared.
AdmitFinally(i) ==
    /\ i \in ActiveRuns
    /\ runs' = [runs EXCEPT ![i].pc = "done"]
    /\ engines' = [engines EXCEPT ![runs[i].engine].current_backup = 0]
    /\ UNCHANGED <<is_running, restores>>
    /\ WsFrame
    /\ AdmitFrame

\* DELETE /backup/cancel: 404 when the API engine's slot is empty.
api_cancel_backup ==
    /\ engines["api"].current_backup # 0
    /\ ~engines["api"].cancel_requested
    /\ engines' = [engines EXCEPT !["api"].cancel_requested = TRUE]
    /\ UNCHANGED <<runs, is_running, restores>>
    /\ WsFrame
    /\ AdmitFrame

\* POST /restore/start: 409 when is_running, otherwise queued in background.
start_restore ==
    /\ Len(restores) < MaxRestores
    /\ IF is_running
         THEN restores' = Append(restores, [reply |-> 409, pc |-> "rejected"])
         ELSE restores' = Append(restores, [reply |-> 200, pc |-> "queued"])
    /\ UNCHANGED <<engines, runs, is_running>>
    /\ WsFrame
    /\ AdmitFrame

\* perform_restore starts: is_running = True.
perform_restore(i) ==
    /\ i \in DOMAIN restores
    /\ restores[i].pc = "queued"
    /\ restores' = [restores EXCEPT ![i].pc = "running"]
    /\ is_running' = TRUE
    /\ UNCHANGED <<engines, runs>>
    /\ WsFrame
    /\ AdmitFrame

\* perform_restore ends: the finally block clears is_running.
RestoreFinally(i) ==
    /\ i \in ActiveRestores
    /\ restores' = [restores EXCEPT ![i].pc = "done"]
    /\ is_running' = FALSE
    /\ UNCHANGED <<engines, runs>>
    /\ WsFrame
    /\ AdmitFrame

\* GET /ws/progress: the connection is registered, an engine is built and
\* the callback is added to it. That engine runs no backup, so the initial
\* message is "No backup in progress".
websocket_progress(c) ==
    /\ c \notin progress_connections
    /\ progress_connections' = progress_connections \cup {c}
    /\ progress_callbacks' = [progress_callbacks EXCEPT ![c] = @ + 1]
    /\ UNCHANGED <<engines, runs, is_running, restores, received>>
    /\ AdmitFrame

\* The client goes away: manager.disconnect, then the finally block removes
\* the callback from the connection's engine.
websocket_disconnect(c) ==
    /\ c \in progress_connections
    /\ progress_connections' = progress_connections \ {c}
    /\ progress_callbacks' = [progress_callbacks EXCEPT ![c] = 0]
    /\ UNCHANGED <<engines, runs, is_running, restores, received>>
    /\ AdmitFrame

InitAdmitVars ==
    /\ engines = [e \in Engines |-> NewEngine]
    /\ runs = <<>>
    /\ is_running = FALSE
    /\ restores = <<>>
    /\ progress_connections = {}
    /\ progress_callbacks = [e \in Engines \cup Clients |-> 0]
    /\ received = [c \in Clients |-> 0]

AdmitStep ==
    \/ start_backup
    \/ \E i \in 1..MaxRequests : run_backup(i)
    \/ run_scheduled_backup
    \/ \E i \in 1..MaxRequests : AdmitProgress(i)
    \/ \E i \in 1..MaxRequests : AdmitFinally(i)
    \/ api_cancel_backup
    \/ start_restore
    \/ \E i \in 1..MaxRestores : perform_restore(i)
    \/ \E i \in 1..MaxRestores : RestoreFinally(i)
    \/ \E c \in Clients : websocket_progress(c)
    \/ \E c \in Clients : websocket_disconnect(c)

(***************************************************************************)
(* Calendar, settings, paths                                               *)
(***************************************************************************)
\* The clock counts hours. A scaled-down calendar keeps the model finite.
HoursPerDay == 1
DaysPerMonth == 3
MaxTime == 3
MaxRuns == 3
MaxSize == 1
MaxFaults == 1
MaxCancels == 1

\* The environment (subprocesses, the SSH link, the database) fails at most
\* MaxFaults times in a behaviour.
Fails(n) == faults + n <= MaxFaults /\ faults' = faults + n

Works == UNCHANGED faults

\* Settings (config.py:18-20), at the smallest values the validators admit.
months_to_keep == 1
daily_incremental_days == 1
local_snapshot_days == 1

\* SnapshotManager.subvolumes, in the configured order.
Subvolumes == <<"@", "@home">>

\* strftime("%Y%m%d"), strftime("%Y%m") and .day of datetime.now().
DateOf(t) == t \div HoursPerDay
MonthOf(t) == DateOf(t) \div DaysPerMonth
DayOfMonth(t) == (DateOf(t) % DaysPerMonth) + 1

\* {base}/{client}/{YYYYMM}/{kind}/{subvol}_{YYYYMMDD}_{kind}.btrfs.gpg
RemoteFile(subvol, kind, t) ==
    [month |-> MonthOf(t), kind |-> kind, subvolume |-> subvol, date |-> DateOf(t)]

\* {snapshot_dir}/{subvol}_{timestamp}
SnapshotPath(subvol, ts) == [subvolume |-> subvol, timestamp |-> ts]

LocalPaths == {SnapshotPath(s.subvolume, s.timestamp) : s \in local}

RemotePaths == {f.path : f \in remote}

SentPaths == {r.snapshot_path : r \in ledger}

\* SELECT id FROM sent_snapshots WHERE snapshot_path = ?
is_snapshot_sent(path) == \E r \in ledger : r.snapshot_path = path

(***************************************************************************)
(* The run's locals                                                        *)
(***************************************************************************)
NoSnapshot == SnapshotPath("", 0)

NoFile == [month |-> -1, kind |-> "", subvolume |-> "", date |-> -1]

NoUpload == [kind |-> "", parent |-> NoSnapshot, remote_file |-> NoFile, size |-> 0]

\* The locals of perform_backup before a run starts; no counts the runs
\* started so far and stands for the second of the snapshot timestamp.
IdleRun(no) ==
    [no |-> no,
     backup_type |-> None,        \* parameter, then the decided kind
     force_full |-> FALSE,
     status |-> "running",        \* result.status
     result_type |-> "full",      \* result.backup_type
     error |-> "",                \* result.error_message
     snapshots |-> <<>>,          \* create_snapshots()
     i |-> 1,                     \* loop index over snapshots
     subvolume_results |-> <<>>,  \* one entry per processed subvolume
     result_subvolumes |-> <<>>,  \* result.subvolumes
     upload |-> NoUpload,         \* the subvolume being sent
     temp_file |-> 0,             \* size of /tmp/backup_{pid}.tmp, 0 = absent
     ticked |-> FALSE,            \* the clock advanced during this run
     cancel_i |-> 0]              \* history, read by no step: the last
                                  \* subvolume begun when cancel arrived

\* BackupEngine.current_backup = None
NoProgress == [current_step_num |-> 0, total_steps |-> 0, percentage |-> 0]

\* _update_progress(step, step_num, 7, percentage): the snapshot published.
Progress(step_num, percentage) ==
    [current_step_num |-> step_num, total_steps |-> 7, percentage |-> percentage]

\* A percentage that gives every subvolume half of the scale.
SteepPercent(i, n) == 50 + i * 50

\* progress = 50 + (i * 30 / len(snapshots)), i counting from 0
LoopPercent(i, n) == 50 + (i * 30) \div n

\* A _send_snapshot whose finally block leaves the file where it is.
keep_temp(size) == size

\* finally: if os.path.exists(temp_file): os.unlink(temp_file)
unlink_temp(size) == 0

\* except Exception: the result becomes FAILED with the message.
Except(r, msg) == [r EXCEPT !.status = "failed", !.error = msg, !.temp_file = 0]

\* A run that never looks at the flag.
NoCancelCheck == FALSE

\* if self.cancel_requested: raise Exception("Backup cancelled by user")
CancelCheck == cancel_requested

Cancelled(r) == Except(r, "Backup cancelled by user")

\* A sub-result dictionary; absent keys hold the empty value of their type.
SubResult(subvol, ok, kind, file, size, snap, parent, err) ==
    [subvolume |-> subvol, success |-> ok, backup_type |-> kind,
     remote_path |-> file, size |-> size, snapshot |-> snap,
     parent |-> parent, error |-> err]

CurrentSnapshot == run.snapshots[run.i]

\* subvolume_results[snapshot.subvolume] = backup_result, then the next
\* iteration; a failure marks the result PARTIAL.
NextSubvolume(r, res) ==
    [r EXCEPT !.subvolume_results = Append(@, res),
              !.status = IF res.success THEN @ ELSE "partial",
              !.i = @ + 1,
              !.upload = NoUpload,
              !.temp_file = unlink_temp(@)]

\* The except branch of _backup_snapshot.
FailedSnapshot(err) ==
    SubResult(CurrentSnapshot.subvolume, FALSE, "", NoFile, 0, CurrentSnapshot,
              NoSnapshot, err)

(***************************************************************************)
(* perform_backup, step by step                                            *)
(***************************************************************************)
\* An entry that leaves the flag as the last run left it.
stale_flag == cancel_requested

\* self.cancel_requested = False
cleared_flag == FALSE

\* Entry of perform_backup: the flag is cleared, step 1 is published.
perform_backup(bt, ff) ==
    /\ pc = "idle"
    /\ run.no < MaxRuns
    /\ run' = [IdleRun(run.no + 1) EXCEPT !.backup_type = bt, !.force_full = ff]
    /\ cancel_requested' = cleared_flag
    /\ current_backup' = Progress(1, 10)
    /\ pc' = "cleanup_failed_uploads"
    /\ UNCHANGED <<now, local, ledger, remote, rdirs, history, faults>>
    /\ RunFrame

\* The steps of one subvolume's upload.
UploadSteps == {"pipeline", "transfer", "verify", "record"}

\* BackupEngine.cancel_backup while a run is in progress. cancel_i notes the
\* subvolume being uploaded, or between two uploads the one just finished.
cancel_backup ==
    /\ pc # "idle"
    /\ ~cancel_requested
    /\ cancels < MaxCancels
    /\ cancels' = cancels + 1
    /\ cancel_requested' = TRUE
    /\ run' = [run EXCEPT !.cancel_i = IF pc \in UploadSteps THEN run.i
                                        ELSE IF pc = "loop" THEN run.i - 1 ELSE 0]
    /\ UNCHANGED <<now, local, ledger, remote, rdirs, history, current_backup, pc,
                   faults>>
    /\ UNCHANGED <<admitVars, restoreVars, hung, purge>>

\* The clock advances between runs and, a run being shorter than one tick,
\* at most once during a run: before, between or after the uploads of step 5.
Tick ==
    /\ now < MaxTime
    /\ now' = now + 1
    /\ \/ pc = "idle" /\ UNCHANGED run
       \/ pc = "loop" /\ ~run.ticked /\ run' = [run EXCEPT !.ticked = TRUE]
    /\ UNCHANGED <<local, ledger, remote, rdirs, history, current_backup,
                   cancel_requested, pc, faults>>
    /\ RunFrame

\* Step 1: cleanup_failed_uploads. Files not in the ledger and older than one
\* hour are deleted; a failed listing, stat or delete leaves files behind.
Orphans == {f \in remote : f.path \notin {r.remote_path : r \in ledger}}

\* A purge without the age test.
AnyAge == Orphans

\* A purge that waits for two hours.
AgedTwoHours == {f \in Orphans : now - f.mtime > 2}

\* file_age_hours > 1
Purgeable == {f \in Orphans : now - f.mtime > 1}

cleanup_failed_uploads ==
    /\ pc = "cleanup_failed_uploads"
    /\ \E D \in SUBSET Purgeable :
          /\ remote' = remote \ D
          /\ Fails(Cardinality(Purgeable \ D))
    /\ IF CancelCheck
         THEN /\ run' = Cancelled(run)
              /\ pc' = "finally"
              /\ UNCHANGED current_backup
         ELSE /\ current_backup' = Progress(2, 20)
              /\ pc' = "determine"
              /\ UNCHANGED run
    /\ UNCHANGED <<now, local, ledger, rdirs, history, cancel_requested>>
    /\ RunFrame

\* _determine_backup_type
determine_backup_type(force_full) ==
    IF force_full \/ DayOfMonth(now) = 1
      THEN "full"
      ELSE IF Cardinality(ledger) > 0 THEN "incremental" ELSE "full"

\* Step 2: the kind is decided only when the caller gave none. force_full is
\* not read again.
DecideKind ==
    /\ pc = "determine"
    /\ LET kind == IF run.backup_type = None
                     THEN determine_backup_type(run.force_full)
                     ELSE run.backup_type
       IN run' = [run EXCEPT !.backup_type = kind, !.result_type = kind,
                             !.force_full = FALSE]
    /\ current_backup' = Progress(3, 30)
    /\ pc' = "create_snapshots"
    /\ UNCHANGED <<now, local, ledger, remote, rdirs, history, cancel_requested, faults>>
    /\ RunFrame

\* Step 3: create_snapshots. All subvolumes are snapshotted, or the first
\* failure deletes the ones made so far (a delete may fail) and raises.
NewSnapshot(subvol) == [subvolume |-> subvol, timestamp |-> run.no, ctime |-> now]

\* The snapshots made before the creation for the k-th subvolume failed.
Created(k) == {NewSnapshot(Subvolumes[j]) : j \in 1..(k-1)}

\* A failure that leaves the snapshots made so far in place.
NoRollback(k) == {[left |-> Created(k), failed |-> 0]}

\* for s in snapshots: await self._delete_snapshot(s.path) -- the snapshots
\* left behind and the number of deletes that failed.
Rollback(k) == {[left |-> L, failed |-> Cardinality(L)] : L \in SUBSET Created(k)}

\* f"Failed to create snapshot for {subvol_name}"
CreateError(subvol) ==
    IF subvol = "@" THEN "Failed to create snapshot for @"
                    ELSE "Failed to create snapshot for @home"

create_snapshots ==
    /\ pc = "create_snapshots"
    /\ \/ /\ local' = local \cup {NewSnapshot(Subvolumes[k]) : k \in DOMAIN Subvolumes}
          /\ Works
          /\ IF CancelCheck
               THEN /\ run' = Cancelled([run EXCEPT !.snapshots =
                               [k \in DOMAIN Subvolumes |-> SnapshotPath(Subvolumes[k], run.no)]])
                    /\ pc' = "finally"
                    /\ UNCHANGED current_backup
               ELSE /\ run' = [run EXCEPT !.snapshots =
                               [k \in DOMAIN Subvolumes |-> SnapshotPath(Subvolumes[k], run.no)]]
                    /\ current_backup' = Progress(4, 40)
                    /\ pc' = "connect"
       \/ \E k \in DOMAIN Subvolumes :
          \E out \in Rollback(k) :
             /\ local' = local \cup out.left
             /\ Fails(1 + out.failed)
             /\ run' = Except(run, CreateError(Subvolumes[k]))
             /\ pc' = "finally"
             /\ UNCHANGED current_backup
    /\ UNCHANGED <<now, ledger, remote, rdirs, history, cancel_requested>>
    /\ RunFrame

\* Step 4: _get_unraid_host.
get_unraid_host ==
    /\ pc = "connect"
    /\ pc' = "loop"
    /\ UNCHANGED <<now, local, ledger, remote, rdirs, history, current_backup,
                   cancel_requested, run, faults>>
    /\ RunFrame

\* snapshots.sort(key=lambda x: x.name, reverse=True): the names end in the
\* timestamp, so the newest snapshot comes first.
RECURSIVE NewestFirst(_)
NewestFirst(S) ==
    IF S = {}
      THEN <<>>
      ELSE LET newest == CHOOSE s \in S : \A t \in S : t.timestamp <= s.timestamp
           IN <<newest>> \o NewestFirst(S \ {newest})

\* A scan that takes the first entry without asking the ledger.
FirstListed(entries) ==
    IF entries = <<>>
      THEN NoSnapshot
      ELSE SnapshotPath(Head(entries).subvolume, Head(entries).timestamp)

\* The loop over the sorted entries: the first one with a ledger row.
RECURSIVE FirstSent(_)
FirstSent(entries) ==
    IF entries = <<>>
      THEN NoSnapshot
      ELSE LET path == SnapshotPath(Head(entries).subvolume, Head(entries).timestamp)
           IN IF is_snapshot_sent(path) THEN path ELSE FirstSent(Tail(entries))

\* A search over the whole snapshot directory.
find_parent_anywhere(subvol) == FirstSent(NewestFirst(local))

\* find_parent_snapshot: the directory entries named {subvolume}_*, newest
\* name first; the first one with a ledger row, or None.
find_parent_snapshot(subvol) ==
    FirstSent(NewestFirst({s \in local : s.subvolume = subvol}))

\* A plan that sends every subvolume in full, whatever the run's kind.
PlanFull(snapshot, backup_type) ==
    [kind |-> "full", parent |-> NoSnapshot,
     remote_file |-> RemoteFile(snapshot.subvolume, "full", now), size |-> 0]

\* _backup_snapshot: full when the run is full or no sent parent is found.
PlanUpload(snapshot, backup_type) ==
    LET parent == IF backup_type = "full"
                    THEN NoSnapshot
                    ELSE find_parent_snapshot(snapshot.subvolume)
        kind == IF parent # NoSnapshot /\ is_snapshot_sent(parent)
                  THEN "incremental" ELSE "full"
    IN [kind |-> kind,
        parent |-> IF kind = "incremental" THEN parent ELSE NoSnapshot,
        remote_file |-> RemoteFile(snapshot.subvolume, kind, now),
        size |-> 0]

\* Step 5, head of the loop: either the end of the loop (step 6 is
\* published; no cancel check follows the last iteration) or the next
\* iteration: the cancel check, then the subvolume's kind, its remote path
\* and mkdir -p of the remote directory (which may fail).
LoopHead ==
    /\ pc = "loop"
    /\ IF run.i > Len(run.snapshots)
         THEN /\ current_backup' = Progress(6, 85)
              /\ pc' = "verify_backups"
              /\ UNCHANGED <<run, rdirs, faults>>
         ELSE IF CancelCheck
           THEN /\ run' = Cancelled(run)
                /\ pc' = "finally"
                /\ UNCHANGED <<current_backup, rdirs, faults>>
           ELSE /\ current_backup' = Progress(5, LoopPercent(run.i - 1, Len(run.snapshots)))
                /\ run' = [run EXCEPT !.upload = PlanUpload(CurrentSnapshot, run.backup_type)]
                /\ \/ rdirs' = rdirs \cup {MonthOf(now)} /\ Works
                   \/ UNCHANGED rdirs /\ Fails(1)
                /\ pc' = "pipeline"
    /\ UNCHANGED <<now, local, ledger, remote, history, cancel_requested>>
    /\ RunFrame

\* btrfs send | gzip | gpg > temp_file. A failure raises with the file as
\* far as the shell wrote it; the finally block removes the temp file and
\* _backup_snapshot records the failure.
Pipeline ==
    /\ pc = "pipeline"
    /\ \/ \E size \in 1..MaxSize :
             /\ run' = [run EXCEPT !.temp_file = size, !.upload.size = size]
             /\ pc' = "transfer"
             /\ Works
       \/ /\ \E part \in 0..MaxSize :
                run' = NextSubvolume([run EXCEPT !.temp_file = part],
                                     FailedSnapshot("pipeline"))
          /\ pc' = "loop"
          /\ Fails(1)
    /\ UNCHANGED <<now, local, ledger, remote, rdirs, history, current_backup,
                   cancel_requested>>
    /\ RunFrame

\* cat > remote_file truncates the file and writes size bytes.
WriteRemote(path, size) ==
    {f \in remote : f.path # path} \cup {[path |-> path, size |-> size, mtime |-> now]}

\* The result of _send_snapshot with the keys _perform_*_backup adds.
SendResult(ok, err) ==
    SubResult(CurrentSnapshot.subvolume, ok, run.upload.kind, run.upload.remote_file,
              IF err = "transfer" THEN 0 ELSE run.upload.size, NoSnapshot,
              run.upload.parent, err)

\* _transfer_with_progress: cat temp | ssh 'cat > remote'. The exit status is
\* that of ssh: 0 with the whole file, 0 with a short file (the local reader
\* died), or non-zero with the remote file untouched or partly written.
Transfer ==
    /\ pc = "transfer"
    /\ LET path == run.upload.remote_file
           dir == path.month \in rdirs
       IN \/ /\ dir
             /\ remote' = WriteRemote(path, run.temp_file)
             /\ pc' = "verify"
             /\ Works
             /\ UNCHANGED run
          \/ /\ dir
             /\ \E part \in 0..(run.temp_file - 1) : remote' = WriteRemote(path, part)
             /\ pc' = "verify"
             /\ Fails(1)
             /\ UNCHANGED run
          \/ /\ IF dir THEN Fails(1) ELSE Works
             /\ \/ UNCHANGED remote
                \/ /\ dir
                   /\ \E part \in 0..(run.temp_file - 1) : remote' = WriteRemote(path, part)
             /\ run' = NextSubvolume(run, SendResult(FALSE, "transfer"))
             /\ pc' = "loop"
    /\ UNCHANGED <<now, local, ledger, rdirs, history, current_backup, cancel_requested>>
    /\ RunFrame

\* check_remote_file: the size of the remote file, or not found (also when
\* the command fails).
RemoteSize(path, reachable) ==
    IF reachable /\ path \in RemotePaths
      THEN (CHOOSE f \in remote : f.path = path).size
      ELSE -1

\* A verification that only asks whether the file exists.
verify_exists_only(path, expected_size, reachable) ==
    RemoteSize(path, reachable) >= 0

\* verify_remote_file: exists and actual_size == expected_size.
verify_remote_file(path, expected_size, reachable) ==
    RemoteSize(path, reachable) = expected_size

\* The size check; success sends the run on to the ledger write.
Verify ==
    /\ pc = "verify"
    /\ \E reachable \in BOOLEAN :
          /\ IF reachable THEN Works ELSE Fails(1)
          /\ IF verify_remote_file(run.upload.remote_file, run.temp_file, reachable)
               THEN /\ run' = [run EXCEPT !.temp_file = unlink_temp(@)]
                    /\ pc' = "record"
               ELSE /\ run' = NextSubvolume(run, SendResult(FALSE, "verify"))
                    /\ pc' = "loop"
    /\ UNCHANGED <<now, local, ledger, remote, rdirs, history, current_backup,
                   cancel_requested>>
    /\ RunFrame

\* The row _record_sent_snapshot inserts.
SentSnapshot(snapshot_path, remote_path, size, backup_type, parent_snapshot) ==
    [snapshot_path |-> snapshot_path, remote_path |-> remote_path, sent_at |-> now,
     size_bytes |-> size, backup_type |-> backup_type,
     parent_snapshot |-> parent_snapshot]

\* _record_sent_snapshot: snapshot_path is unique; a failed commit raises and
\* _backup_snapshot turns it into a failed sub-result.
Record ==
    /\ pc = "record"
    /\ \/ /\ ~is_snapshot_sent(CurrentSnapshot)
          /\ ledger' = ledger \cup {SentSnapshot(CurrentSnapshot, run.upload.remote_file,
                                                 run.upload.size, run.upload.kind,
                                                 run.upload.parent)}
          /\ run' = NextSubvolume(run, SendResult(TRUE, ""))
          /\ Works
       \/ /\ UNCHANGED ledger
          /\ run' = NextSubvolume(run, FailedSnapshot("ledger"))
          /\ Fails(1)
    /\ pc' = "loop"
    /\ UNCHANGED <<now, local, remote, rdirs, history, current_backup, cancel_requested>>
    /\ RunFrame

\* Step 6: verify_backups only counts the sub-results; step 7 is published.
verify_backups ==
    /\ pc = "verify_backups"
    /\ current_backup' = Progress(7, 95)
    /\ pc' = "monthly"
    /\ UNCHANGED <<now, local, ledger, remote, rdirs, history, cancel_requested, run,
                   faults>>
    /\ RunFrame

\* months[months_to_keep:] of the month directories sorted newest first.
OldMonths == {m \in rdirs : Cardinality({n \in rdirs : n > m}) >= months_to_keep}

\* cleanup_old_monthly_backups: for each old month the ledger rows under it
\* are deleted, then rm -rf of the directory (which may fail). A failed
\* listing changes nothing.
cleanup_old_monthly_backups ==
    \/ UNCHANGED <<ledger, remote, rdirs>> /\ Fails(1)
    \/ /\ ledger' = {r \in ledger : r.remote_path.month \notin OldMonths}
       /\ \E Removed \in SUBSET OldMonths :
             /\ rdirs' = rdirs \ Removed
             /\ remote' = {f \in remote : f.path.month \notin Removed}
             /\ Fails(Cardinality(OldMonths \ Removed))

\* A purge in every run.
PurgeAlways == TRUE

\* if backup_type == BackupType.FULL and datetime.now().day == 1
MonthlyPurgeDue == run.backup_type = "full" /\ DayOfMonth(now) = 1

\* Step 7, first phase: only for a full run on day 1.
MonthlyPurge ==
    /\ pc = "monthly"
    /\ IF MonthlyPurgeDue
         THEN cleanup_old_monthly_backups
         ELSE UNCHANGED <<ledger, remote, rdirs, faults>>
    /\ pc' = "incremental"
    /\ UNCHANGED <<now, local, history, current_backup, cancel_requested, run>>
    /\ RunFrame

\* find {current month}/incremental -mtime +N -delete
ExpiredIncrementalFiles ==
    {f \in remote : /\ f.path.month = MonthOf(now)
                    /\ f.path.kind = "incremental"
                    /\ (now - f.mtime) \div HoursPerDay > daily_incremental_days}

\* Rows past the cutoff whatever their kind.
ExpiredRows == {r \in ledger : r.sent_at < now - daily_incremental_days * HoursPerDay}

\* DELETE FROM sent_snapshots WHERE backup_type = 'incremental' AND sent_at < cutoff
ExpiredIncrementalRows ==
    {r \in ledger : /\ r.backup_type = "incremental"
                    /\ r.sent_at < now - daily_incremental_days * HoursPerDay}

\* cleanup_old_incremental_backups: the remote find may fail; the rows are
\* deleted either way.
cleanup_old_incremental_backups ==
    /\ pc = "incremental"
    /\ \/ remote' = remote \ ExpiredIncrementalFiles /\ Works
       \/ UNCHANGED remote /\ Fails(1)
    /\ ledger' = ledger \ ExpiredIncrementalRows
    /\ pc' = "local"
    /\ UNCHANGED <<now, local, rdirs, history, current_backup, cancel_requested, run>>
    /\ RunFrame

\* Aging by the window alone, the ledger not consulted.
AgedUnchecked(days) == {s \in local : s.ctime < now - days * HoursPerDay}

\* cleanup_old_snapshots(days): older than days and sent, or older than twice
\* days.
AgedSnapshots(days) ==
    {s \in local :
        /\ s.ctime < now - days * HoursPerDay
        /\ \/ is_snapshot_sent(SnapshotPath(s.subvolume, s.timestamp))
           \/ s.ctime < now - days * 2 * HoursPerDay}

\* cleanup_local_snapshots: each delete may fail (_delete_snapshot returns
\* False). Listing the snapshot directory, stat of an entry or the ledger
\* query may raise; neither cleanup_old_snapshots nor cleanup_local_snapshots
\* catches it, so it reaches the except branch of perform_backup, the
\* snapshots deleted before it staying deleted.
cleanup_local_snapshots ==
    /\ pc = "local"
    /\ \/ /\ \E D \in SUBSET AgedSnapshots(local_snapshot_days) :
                /\ local' = local \ D
                /\ Fails(Cardinality(AgedSnapshots(local_snapshot_days) \ D))
          /\ pc' = "finalize"
          /\ UNCHANGED run
       \/ /\ \E D \in SUBSET AgedSnapshots(local_snapshot_days) :
                /\ local' = local \ D
          /\ Fails(1)
          /\ run' = Except(run, "Failed to list snapshots")
          /\ pc' = "finally"
    /\ UNCHANGED <<now, ledger, remote, rdirs, history, current_backup,
                   cancel_requested>>
    /\ RunFrame

\* An aggregation that reports success as soon as one subvolume succeeded.
AnySucceeded(results) ==
    IF \E k \in DOMAIN results : results[k].success THEN "success" ELSE "failed"

\* Final status from the sub-results.
FinalStatus(results) ==
    IF \A k \in DOMAIN results : results[k].success
      THEN "success"
      ELSE IF \E k \in DOMAIN results : results[k].success
        THEN "partial"
        ELSE "failed"

Finalize ==
    /\ pc = "finalize"
    /\ run' = [run EXCEPT !.result_subvolumes = run.subvolume_results,
                          !.status = FinalStatus(run.subvolume_results)]
    /\ current_backup' = Progress(7, 100)
    /\ pc' = "finally"
    /\ UNCHANGED <<now, local, ledger, remote, rdirs, history, cancel_requested, faults>>
    /\ RunFrame

\* A row that keeps the status the result was created with.
InitialHistory(r) ==
    [backup_type |-> r.result_type, status |-> "running",
     error_message |-> r.error,
     subvolumes |-> [k \in DOMAIN r.result_subvolumes |->
                       [subvolume |-> r.result_subvolumes[k].subvolume,
                        success |-> r.result_subvolumes[k].success]]]

\* The row _save_backup_history inserts.
BackupHistory(r) ==
    [backup_type |-> r.result_type, status |-> r.status,
     error_message |-> r.error,
     subvolumes |-> [k \in DOMAIN r.result_subvolumes |->
                       [subvolume |-> r.result_subvolumes[k].subvolume,
                        success |-> r.result_subvolumes[k].success]]]

\* finally: the history row is saved, then the slot is cleared; when the
\* save raises, the assignment after it is not reached.
Finally ==
    /\ pc = "finally"
    /\ \/ /\ history' = Append(history, BackupHistory(run))
          /\ current_backup' = NoProgress
          /\ Works
       \/ UNCHANGED <<history, current_backup>> /\ Fails(1)
    /\ pc' = "idle"
    /\ run' = IdleRun(run.no)
    /\ UNCHANGED <<now, local, ledger, remote, rdirs, cancel_requested>>
    /\ RunFrame

(***************************************************************************)
(* perform_restore, step by step                                           *)
(***************************************************************************)
\* No scratch directory.
NoDir == [exists |-> FALSE, files |-> {}]

\* tempfile.mkdtemp(prefix="petalbyte_restore_")
mkdtemp == [exists |-> TRUE, files |-> {}]

\* A cleanup that leaves the directory and its files.
keep_tree(dir) == dir

\* shutil.rmtree(temp_dir, ignore_errors=True)
rmtree(dir) == NoDir

\* The locals of perform_restore before a restore starts; no counts the
\* restores started so far.
IdleRestore(no) ==
    [no |-> no,
     verify_only |-> FALSE,
     backup_date |-> 0,
     backup_type |-> "full",
     subvolumes |-> <<>>,
     target_path |-> None,
     i |-> 1,                     \* loop index over subvolumes
     results |-> <<>>,            \* results[subvolume], in order
     outcome |-> ""]              \* "": running, else what is returned

\* {remote_base}/{subvolume}_{backup_date}_{type}.btrfs.gpg with
\* month = backup_date[:6]
RestoreFile(subvol, kind, date) ==
    [month |-> date \div DaysPerMonth, kind |-> kind, subvolume |-> subvol,
     date |-> date]

CurrentRestoreFile ==
    RestoreFile(restore.subvolumes[restore.i], restore.backup_type, restore.backup_date)

\* results[subvolume]; absent keys hold the empty value of their type.
\* observed is what head -c 100 | file - printed for this subvolume, kept
\* for the properties and read by no step.
RestoreResult(subvol, ok, verified, size, err, to, observed) ==
    [subvolume |-> subvol, success |-> ok, verified |-> verified, size |-> size,
     error |-> err, restored_to |-> to, observed |-> observed]

\* results[subvolume] = ..., then the next subvolume.
NextRestore(r, res) == [r EXCEPT !.results = Append(@, res), !.i = @ + 1]

\* The dates a restore may be asked for: those of the remote files and today.
RestoreDates == {f.path.date : f \in remote} \cup {DateOf(now)}

RestoreRequests == {<<"@">>, <<"@home">>, <<"@", "@home">>}

TargetPaths == {None, "/mnt/restore"}

\* Entry of perform_restore up to the loop: _get_unraid_host may raise, which
\* ends the restore with {"success": False, "error": ...}.
perform_restore_detail(vo, date, bt, svs, tp) ==
    /\ rpc = "idle"
    /\ pc = "idle"
    /\ restore.no < MaxRestores
    /\ LET r == [IdleRestore(restore.no + 1) EXCEPT
                    !.verify_only = vo, !.backup_date = date, !.backup_type = bt,
                    !.subvolumes = svs, !.target_path = tp]
       IN \/ /\ restore' = r
             /\ rpc' = "subvolume"
             /\ Works
          \/ /\ restore' = [r EXCEPT !.outcome = "error"]
             /\ rpc' = "finally"
             /\ Fails(1)
    /\ UNCHANGED <<temp_dir, restored>>
    /\ RestoreFrame

\* Head of the loop over subvolumes: after the last one the overall result
\* is computed; otherwise check_remote_file, then either the "not found"
\* result, or the integrity check, or _restore_snapshot, which begins by
\* making its scratch directory (a failure there is raised to perform_restore).
RestoreLoop ==
    /\ rpc = "subvolume"
    /\ IF restore.i > Len(restore.subvolumes)
         THEN /\ restore' = [restore EXCEPT !.outcome =
                    IF \A k \in DOMAIN restore.results : restore.results[k].success
                      THEN "success" ELSE "failure"]
              /\ rpc' = "finally"
              /\ Works
              /\ UNCHANGED temp_dir
         ELSE \E reachable \in BOOLEAN :
                /\ IF RemoteSize(CurrentRestoreFile, reachable) < 0
                     THEN /\ IF reachable THEN Works ELSE Fails(1)
                          /\ restore' = NextRestore(restore,
                                RestoreResult(restore.subvolumes[restore.i], FALSE, FALSE,
                                              0, "Backup file not found", None, ""))
                          /\ rpc' = "subvolume"
                          /\ UNCHANGED temp_dir
                     ELSE IF restore.verify_only
                       THEN /\ Works
                            /\ rpc' = "integrity"
                            /\ UNCHANGED <<restore, temp_dir>>
                       ELSE \/ /\ Works
                               /\ temp_dir' = mkdtemp
                               /\ rpc' = "download"
                               /\ UNCHANGED restore
                            \/ /\ Fails(1)
                               /\ restore' = [restore EXCEPT !.outcome = "error"]
                               /\ rpc' = "finally"
                               /\ UNCHANGED temp_dir
    /\ UNCHANGED restored
    /\ RestoreFrame

\* What file(1) says of the first bytes of a remote file: every non-empty
\* file on the remote side was written by gpg --symmetric.
FileHeader(path) ==
    IF RemoteSize(path, TRUE) > 0 THEN "GPG symmetrically encrypted data"
    ELSE "empty"

\* A check that accepts any file the command could read.
valid_if_readable(success, stdout) == success

\* header_check["success"] and "GPG" in header_check["stdout"]
valid_header(success, stdout) == success /\ stdout = "GPG symmetrically encrypted data"

\* verify_backup_integrity: the file is looked up again, then
\* head -c 100 | file - is run on it; the size is that of the second lookup.
verify_backup_integrity ==
    /\ rpc = "integrity"
    /\ LET subvol == restore.subvolumes[restore.i]
           size == RemoteSize(CurrentRestoreFile, TRUE)
           invalid == RestoreResult(subvol, FALSE, TRUE, 0, "", None, "")
       IN \/ /\ Fails(1)     \* the second lookup or the header command fails
             /\ restore' = NextRestore(restore, invalid)
          \/ /\ Works
             /\ LET out == FileHeader(CurrentRestoreFile)
                    valid == valid_header(TRUE, out)
                IN restore' = NextRestore(restore,
                      RestoreResult(subvol, valid, TRUE, IF valid THEN size ELSE 0,
                                    "", None, out))
    /\ rpc' = "subvolume"
    /\ UNCHANGED <<temp_dir, restored>>
    /\ RestoreFrame

\* The except branch of _restore_snapshot followed by its finally block.
RestoreFailed(err) ==
    /\ restore' = NextRestore(restore,
          RestoreResult(restore.subvolumes[restore.i], FALSE, FALSE, 0, err, None, ""))
    /\ temp_dir' = rmtree(temp_dir)
    /\ rpc' = "subvolume"

\* scp remote_file temp_dir/backup.btrfs.gpg; a failure may leave a part.
Download ==
    /\ rpc = "download"
    /\ \/ /\ Works
          /\ temp_dir' = [temp_dir EXCEPT !.files = @ \cup {"backup.btrfs.gpg"}]
          /\ rpc' = "decrypt"
          /\ UNCHANGED restore
       \/ /\ Fails(1)
          /\ RestoreFailed("Download failed")
    /\ UNCHANGED restored
    /\ RestoreFrame

\* gpg --decrypt file | gunzip > temp_dir/backup.btrfs. An empty file never
\* decrypts; any other may fail to.
Decrypt ==
    /\ rpc = "decrypt"
    /\ \/ /\ RemoteSize(CurrentRestoreFile, TRUE) > 0
          /\ Works
          /\ temp_dir' = [temp_dir EXCEPT !.files = @ \cup {"backup.btrfs"}]
          /\ rpc' = "receive"
          /\ UNCHANGED restore
       \/ /\ IF RemoteSize(CurrentRestoreFile, TRUE) > 0 THEN Fails(1) ELSE Works
          /\ RestoreFailed("Decryption failed")
    /\ UNCHANGED restored
    /\ RestoreFrame

\* btrfs receive restore_path < backup.btrfs. Only the parent of the restore
\* path is created, so without a target path the directory to receive into
\* (/tmp/petalbyte_restore/{subvolume}_{date}) does not exist.
Receive ==
    /\ rpc = "receive"
    /\ \/ /\ restore.target_path # None
          /\ Works
          /\ restored' = restored \cup {[subvolume |-> restore.subvolumes[restore.i],
                                        date |-> restore.backup_date,
                                        to |-> restore.target_path]}
          /\ restore' = NextRestore(restore,
                RestoreResult(restore.subvolumes[restore.i], TRUE, FALSE,
                              RemoteSize(CurrentRestoreFile, TRUE), "",
                              restore.target_path, ""))
          /\ temp_dir' = rmtree(temp_dir)
          /\ rpc' = "subvolume"
       \/ /\ IF restore.target_path # None THEN Fails(1) ELSE Works
          /\ RestoreFailed("Btrfs receive failed")
          /\ UNCHANGED restored
    /\ RestoreFrame

\* finally: self.is_running = False; the locals go away.
RestoreReturn ==
    /\ rpc = "finally"
    /\ restore' = IdleRestore(restore.no)
    /\ rpc' = "idle"
    /\ Works
    /\ UNCHANGED <<temp_dir, restored>>
    /\ RestoreFrame

InitRestoreVars ==
    /\ rpc = "idle"
    /\ restore = IdleRestore(0)
    /\ temp_dir = NoDir
    /\ restored = {}

(***************************************************************************)
(* cleanup_old_monthly_backups, month by month                             *)
(***************************************************************************)
\* The newest month directory the purge is tried on.
MaxPurgeMonth == 2

\* The locals of cleanup_old_monthly_backups; removed collects the
\* directories rm -rf has deleted and is read by no step.
IdlePurge == [pc |-> "idle", months |-> <<>>, step |-> 1, removed |-> {}]

\* ls -1 | grep -E '^[0-9]{6}$' | sort -r
RECURSIVE SortReverse(_)
SortReverse(S) ==
    IF S = {}
      THEN <<>>
      ELSE LET m == CHOOSE x \in S : \A y \in S : y <= x
           IN <<m>> \o SortReverse(S \ {m})

\* months[self.settings.months_to_keep:]
BeyondRetention(months) ==
    IF Len(months) > months_to_keep
      THEN SubSeq(months, months_to_keep + 1, Len(months))
      ELSE <<>>

\* A purge that removes the directory before the rows.
DirectoryFirst == <<"rm", "delete_rows">>

\* The body of the loop: "Remove from database first", then "Delete
\* directory".
PurgeOrder == <<"delete_rows", "rm">>

\* The first hour of month m.
FirstHour(m) == m * DaysPerMonth * HoursPerDay

\* A full artifact of month m and the ledger row that references it.
MonthFile(subvol, m) ==
    [path |-> RemoteFile(subvol, "full", FirstHour(m)), size |-> 1, mtime |-> FirstHour(m)]

MonthRow(subvol, m) ==
    [snapshot_path |-> SnapshotPath(subvol, m + 1),
     remote_path |-> RemoteFile(subvol, "full", FirstHour(m)),
     sent_at |-> FirstHour(m), size_bytes |-> 1, backup_type |-> "full",
     parent_snapshot |-> NoSnapshot]

\* The states the purge is applied to: some month directories, in each of
\* them for each subvolume no artifact, an artifact without a row or an
\* artifact with its row; the clock is at the first hour of the newest month.
InitPurge ==
    /\ InitAdmitVars /\ InitRestoreVars
    /\ hung = FALSE
    /\ purge = IdlePurge
    /\ local = {} /\ history = <<>> /\ current_backup = NoProgress
    /\ cancel_requested = FALSE /\ pc = "idle" /\ run = IdleRun(0)
    /\ faults = 0 /\ cancels = 0
    /\ rdirs \in SUBSET (0..MaxPurgeMonth)
    /\ now = IF rdirs = {} THEN 0 ELSE FirstHour(Head(SortReverse(rdirs)))
    /\ \E files \in SUBSET (rdirs \X {"@", "@home"}) :
       \E rows \in SUBSET files :
          /\ remote = {MonthFile(x[2], x[1]) : x \in files}
          /\ ledger = {MonthRow(x[2], x[1]) : x \in rows}

PurgeFrame ==
    UNCHANGED <<admitVars, restoreVars, hung, now, local, history, current_backup,
                cancel_requested, pc, run, cancels>>

\* The listing of the month directories; a failure ends the purge.
purge_list ==
    /\ purge.pc = "idle"
    /\ \/ /\ Works
          /\ purge' = [purge EXCEPT !.pc = "loop",
                                    !.months = BeyondRetention(SortReverse(rdirs))]
       \/ /\ Fails(1)
          /\ purge' = [purge EXCEPT !.pc = "done"]
    /\ UNCHANGED <<ledger, remote, rdirs>>
    /\ PurgeFrame

\* DELETE FROM sent_snapshots WHERE remote_path LIKE '{month_path}%'; a
\* failure raises and ends the purge.
purge_delete_rows ==
    /\ purge.pc = "loop" /\ purge.months # <<>>
    /\ PurgeOrder[purge.step] = "delete_rows"
    /\ \/ /\ Works
          /\ ledger' = {r \in ledger : r.remote_path.month # Head(purge.months)}
          /\ purge' = IF purge.step = 2
                        THEN [purge EXCEPT !.months = Tail(@), !.step = 1]
                        ELSE [purge EXCEPT !.step = 2]
       \/ /\ Fails(1)
          /\ purge' = [purge EXCEPT !.pc = "done"]
          /\ UNCHANGED ledger
    /\ UNCHANGED <<remote, rdirs>>
    /\ PurgeFrame

\* rm -rf '{month_path}'; a failure is logged nowhere and the loop goes on.
purge_rm ==
    /\ purge.pc = "loop" /\ purge.months # <<>>
    /\ PurgeOrder[purge.step] = "rm"
    /\ LET m == Head(purge.months)
           next == IF purge.step = 2
                     THEN [purge EXCEPT !.months = Tail(@), !.step = 1]
                     ELSE [purge EXCEPT !.step = 2]
       IN \/ /\ Works
             /\ rdirs' = rdirs \ {m}
             /\ remote' = {f \in remote : f.path.month # m}
             /\ purge' = [next EXCEPT !.removed = @ \cup {m}]
          \/ /\ Fails(1)
             /\ \E gone \in SUBSET {f \in remote : f.path.month = m} :
                   remote' = remote \ gone
             /\ UNCHANGED rdirs
             /\ purge' = next
    /\ UNCHANGED ledger
    /\ PurgeFrame

\* The end of the loop: the result is returned.
purge_return ==
    /\ purge.pc = "loop" /\ purge.months = <<>>
    /\ purge' = [purge EXCEPT !.pc = "done"]
    /\ UNCHANGED <<ledger, remote, rdirs, faults>>
    /\ PurgeFrame

NextPurge == purge_list \/ purge_delete_rows \/ purge_rm \/ purge_return

SpecPurge == InitPurge /\ [][NextPurge]_vars

(***************************************************************************)
(* Specifications                                                          *)
(***************************************************************************)
InitRunVars ==
    /\ now = 0
    /\ local = {}
    /\ ledger = {}
    /\ remote = {}
    /\ rdirs = {}
    /\ history = <<>>
    /\ current_backup = NoProgress
    /\ cancel_requested = FALSE
    /\ pc = "idle"
    /\ run = IdleRun(0)
    /\ faults = 0
    /\ cancels = 0

Init ==
    /\ InitAdmitVars /\ InitRunVars /\ InitRestoreVars
    /\ hung = FALSE
    /\ purge = IdlePurge

BackupTypes == {None, "full", "incremental"}

RunStep ==
    \/ \E bt \in BackupTypes, ff \in BOOLEAN : perform_backup(bt, ff)
    \/ cancel_backup
    \/ Tick
    \/ cleanup_failed_uploads
    \/ DecideKind
    \/ create_snapshots
    \/ get_unraid_host
    \/ LoopHead
    \/ Pipeline
    \/ Transfer
    \/ Verify
    \/ Record
    \/ verify_backups
    \/ MonthlyPurge
    \/ cleanup_old_incremental_backups
    \/ cleanup_local_snapshots
    \/ Finalize
    \/ Finally

Next == RunStep

Spec == Init /\ [][Next]_vars

\* The steps of perform_backup on a stopped clock and without cancellation;
\* a backup starts only between two restores.
UploadStep ==
    \/ \E bt \in BackupTypes, ff \in BOOLEAN : rpc = "idle" /\ perform_backup(bt, ff)
    \/ cleanup_failed_uploads
    \/ DecideKind
    \/ create_snapshots
    \/ get_unraid_host
    \/ LoopHead
    \/ Pipeline
    \/ Transfer
    \/ Verify
    \/ Record
    \/ verify_backups
    \/ MonthlyPurge
    \/ cleanup_old_incremental_backups
    \/ cleanup_local_snapshots
    \/ Finalize
    \/ Finally

RestoreStep ==
    \/ \E vo \in BOOLEAN, date \in RestoreDates, bt \in {"full", "incremental"},
          svs \in RestoreRequests, tp \in TargetPaths :
            perform_restore_detail(vo, date, bt, svs, tp)
    \/ RestoreLoop
    \/ verify_backup_integrity
    \/ Download
    \/ Decrypt
    \/ Receive
    \/ RestoreReturn

NextRestoreSpec == UploadStep \/ RestoreStep

SpecRestore == Init /\ [][NextRestoreSpec]_vars

\* The steps of perform_backup that await a remote command on every path:
\* find/stat/rm of the orphan purge through SSHManager.execute_command
\* (asyncssh.connect and conn.run without a timeout), cat | ssh of the
\* transfer (proc.communicate() without a timeout) and the stat of the size
\* check.
RemoteSteps == {"cleanup_failed_uploads", "transfer", "verify"}

\* The remote host stops responding while the run awaits one of its
\* commands: nothing bounds the wait, so the await does not return.
RemoteHangs ==
    /\ pc \in RemoteSteps
    /\ ~hung
    /\ hung' = TRUE
    /\ UNCHANGED <<now, local, ledger, remote, rdirs, history, current_backup,
                   cancel_requested, pc, run, faults>>
    /\ UNCHANGED <<admitVars, cancels, restoreVars, purge>>

\* A run goes on while its awaits return.
LiveStep == ~hung /\ UploadStep

NextLive == LiveStep \/ RemoteHangs

\* The event loop resumes a task whose await has returned.
SpecLive == Init /\ [][NextLive]_vars /\ WF_vars(LiveStep)

NextAdmit == AdmitStep

SpecAdmit == Init /\ [][NextAdmit]_vars

(***************************************************************************)
(* Properties: admission (checked under SpecAdmit)                         *)
(***************************************************************************)
\* C1: for any interleaving of POST /backup/start requests at most one
\* perform_backup started through the API is active at a time, a request
\* arriving while an accepted run is unfinished being answered 409.
C1_BackupSingleFlight ==
    /\ Cardinality({i \in ActiveRuns : runs[i].origin = "api"}) <= 1
    /\ \A i, j \in DOMAIN runs :
          (/\ i < j
           /\ runs[i].origin = "api" /\ runs[j].origin = "api"
           /\ runs[i].reply = 200 /\ runs[i].pc # "done")
          => runs[j].reply = 409

\* Two accepted API requests execute perform_backup at the same time.
C1_TwoApiRunsActive ==
    \E i, j \in ActiveRuns : i # j /\ runs[i].origin = "api" /\ runs[j].origin = "api"

\* C5: a cron trigger that fires while a run is active starts no second run,
\* so a scheduled run and an API-started run are never active together.
C5_CronNoOpWhileActive ==
    ~ \E i, j \in ActiveRuns : runs[i].origin = "cron" /\ runs[j].origin = "api"

\* C6: for any interleaving of POST /restore/start requests at most one
\* perform_restore is active at a time, a request arriving while an accepted
\* restore is unfinished being answered 409.
C6_RestoreSingleFlight ==
    /\ Cardinality(ActiveRestores) <= 1
    /\ \A i, j \in DOMAIN restores :
          (i < j /\ restores[i].reply = 200 /\ restores[i].pc # "done")
          => restores[j].reply = 409

(***************************************************************************)
(* Properties: the backup run (checked under Spec)                         *)
(***************************************************************************)
\* The ledger row of a snapshot path, if any.
RowsOf(path) == {r \in ledger : r.snapshot_path = path}

\* C2: chain integrity in every reachable state: each incremental ledger row
\* has a ledger row for its parent, whose remote artifact exists.
C2_ChainIntegrity ==
    \A r \in ledger :
        r.backup_type = "incremental" =>
            \E p \in ledger : /\ p.snapshot_path = r.parent_snapshot
                              /\ p.remote_path \in RemotePaths

C4_LedgerMatchesResults ==
    /\ \A r1, r2 \in ledger : r1.snapshot_path = r2.snapshot_path => r1 = r2
    /\ pc = "finally" =>
          \A k \in DOMAIN run.subvolume_results :
              Cardinality(RowsOf(run.snapshots[k])) =
                  IF run.subvolume_results[k].success THEN 1 ELSE 0

\* C7: a run during which cancel_backup was called does not end with status
\* success or partial.
C7_CancelledNeverSucceeds ==
    (pc = "finally" /\ cancel_requested) => run.status \notin {"success", "partial"}

\* C8: a run that observed the cancel flag at one of its checks has status
\* cancelled in its result and in its history row.
C8_ObservedCancelIsCancelled ==
    /\ (pc = "finally" /\ run.error = "Backup cancelled by user")
          => run.status = "cancelled"
    /\ \A k \in DOMAIN history :
          history[k].error_message = "Backup cancelled by user"
              => history[k].status = "cancelled"

C10_ForcedRunIsFull ==
    [][ (/\ pc = "determine" /\ pc' = "create_snapshots"
         /\ (run.force_full \/ DayOfMonth(now) = 1 \/ ledger = {}))
        => (run'.backup_type = "full" /\ run'.result_type = "full")
      ]_vars

\* C12: find_parent_snapshot(name) is the local snapshot of subvolume name
\* with the greatest timestamp among those that have a ledger row, and is
\* None exactly when no local snapshot of that subvolume has a ledger row.
C12_ParentIsNewestSent ==
    \A k \in DOMAIN Subvolumes :
        LET name == Subvolumes[k]
            sent == {s \in local : /\ s.subvolume = name
                                   /\ RowsOf(SnapshotPath(s.subvolume, s.timestamp)) # {}}
            parent == find_parent_snapshot(name)
        IN IF sent = {}
             THEN parent = NoSnapshot
             ELSE \E s \in sent :
                     /\ parent = SnapshotPath(s.subvolume, s.timestamp)
                     /\ \A t \in sent : t.timestamp <= s.timestamp

\* The newest local snapshot of @ has no ledger row, an older one has, and
\* the older one is the parent found.
C12_SkipsUnsentNewest ==
    \E s, t \in local :
        /\ s.subvolume = "@" /\ t.subvolume = "@"
        /\ t.timestamp > s.timestamp
        /\ RowsOf(SnapshotPath(t.subvolume, t.timestamp)) = {}
        /\ RowsOf(SnapshotPath(s.subvolume, s.timestamp)) # {}
        /\ find_parent_snapshot("@") = SnapshotPath(s.subvolume, s.timestamp)
        /\ pc = "idle"

\* C11: in an incremental run the row recorded for a subvolume has kind
\* incremental, the parent returned by find_parent_snapshot and a remote path
\* in the incremental directory exactly when find_parent_snapshot returns a
\* snapshot; otherwise it has kind full, no parent and a remote path in the
\* full directory. The row is the upload that was planned and sent.
C11_IncrementalIffParentFound ==
    [][ (pc = "record" /\ run.backup_type = "incremental") =>
          \A r \in ledger' \ ledger :
              LET parent == find_parent_snapshot(CurrentSnapshot.subvolume)
                  kind == IF parent # NoSnapshot THEN "incremental" ELSE "full"
              IN /\ r.snapshot_path = CurrentSnapshot
                 /\ r.backup_type = kind
                 /\ r.parent_snapshot = parent
                 /\ r.remote_path.kind = kind
                 /\ run.upload.kind = kind
                 /\ run.upload.parent = parent
                 /\ r.remote_path = run.upload.remote_file
                 /\ r.remote_path \in RemotePaths
      ]_vars

\* An incremental run that sent @ relative to a parent and fell back to a
\* full upload for @home.
C11_IncrementalAndFallback ==
    /\ pc = "loop"
    /\ run.backup_type = "incremental"
    /\ Len(run.subvolume_results) = 2
    /\ run.subvolume_results[1].success
    /\ run.subvolume_results[1].backup_type = "incremental"
    /\ run.subvolume_results[1].parent # NoSnapshot
    /\ run.subvolume_results[2].success
    /\ run.subvolume_results[2].backup_type = "full"
    /\ \E r \in RowsOf(run.snapshots[1]) : r.backup_type = "incremental"
    /\ \E r \in RowsOf(run.snapshots[2]) : r.backup_type = "full"

\* C13: chains never span months: the remote artifact of every incremental
\* ledger row lies under the month directory of its parent row's artifact.
C13_ChainWithinMonth ==
    \A r \in ledger :
        r.backup_type = "incremental" =>
            \A p \in RowsOf(r.parent_snapshot) :
                p.remote_path.month = r.remote_path.month

\* C14: the orphan purge deletes no remote artifact modified within the last
\* hour and none whose path is the remote path of a ledger row; it leaves the
\* ledger alone.
C14_OrphanPurgeIsSafe ==
    [][ pc = "cleanup_failed_uploads" =>
          /\ \A f \in remote \ remote' :
                /\ now - f.mtime > 1
                /\ \A r \in ledger : r.remote_path # f.path
          /\ remote' \subseteq remote
          /\ ledger' = ledger
      ]_vars

\* The purge starts on a remote holding an old orphan (to be deleted), a
\* recorded file older than an hour and a file of the last hour (both to be
\* kept).
C14_PurgeFacesAllKinds ==
    /\ pc = "cleanup_failed_uploads"
    /\ Purgeable # {}
    /\ \E f \in remote \ Orphans : now - f.mtime > 1
    /\ \E f \in remote : now - f.mtime <= 1

\* C15: local snapshot aging never deletes the most recent sent snapshot of a
\* subvolume: whenever it deletes a snapshot that has a ledger row, a newer
\* local snapshot of the same subvolume with a ledger row remains.
C15_AgingKeepsNewestSent ==
    [][ pc = "local" =>
          \A s \in local \ local' :
              is_snapshot_sent(SnapshotPath(s.subvolume, s.timestamp)) =>
                  \E t \in local' :
                      /\ t.subvolume = s.subvolume
                      /\ t.timestamp > s.timestamp
                      /\ is_snapshot_sent(SnapshotPath(t.subvolume, t.timestamp))
      ]_vars

\* Aging is about to delete a sent snapshot although no newer snapshot of its
\* subvolume was sent.
C15_OnlyParentAged ==
    /\ pc = "local"
    /\ \E s \in AgedSnapshots(local_snapshot_days) :
          /\ is_snapshot_sent(SnapshotPath(s.subvolume, s.timestamp))
          /\ \A t \in local :
                (t.subvolume = s.subvolume /\ t.timestamp > s.timestamp)
                    => ~is_snapshot_sent(SnapshotPath(t.subvolume, t.timestamp))

\* C16: cleanup_old_snapshots deletes a local snapshot only if it is older
\* than local_snapshot_days and has a ledger row, or it is older than twice
\* local_snapshot_days; a snapshot without a ledger row whose age is at most
\* twice the window is never deleted.
C16_AgingRespectsDoubleWindow ==
    [][ pc = "local" =>
          \A s \in local \ local' :
              \/ /\ s.ctime < now - local_snapshot_days * HoursPerDay
                 /\ \E r \in ledger : r.snapshot_path = SnapshotPath(s.subvolume, s.timestamp)
              \/ s.ctime < now - 2 * local_snapshot_days * HoursPerDay
      ]_vars

\* Aging has run: a sent snapshot is gone from the snapshot directory while
\* an unsent one past the window, but not past twice the window, is kept.
C16_UnsentKeptSentDeleted ==
    /\ pc = "finalize"
    /\ \E r \in ledger : r.snapshot_path \notin LocalPaths
    /\ \E s \in local :
          /\ ~is_snapshot_sent(SnapshotPath(s.subvolume, s.timestamp))
          /\ s.ctime < now - local_snapshot_days * HoursPerDay
          /\ s.ctime >= now - 2 * local_snapshot_days * HoursPerDay

\* C17: after the monthly purge runs with more than months_to_keep month
\* directories on the remote, no ledger row has a remote path under a deleted
\* directory, and every ledger row whose remote path is under a directory that
\* still exists is still present, also when a directory deletion command
\* fails. (That the remaining directories are exactly the months_to_keep
\* newest ones is C17_NewestMonthsRemain, for a purge whose commands succeed.)
C17_RowsFollowDirectories ==
    [][ ( /\ pc = "monthly" /\ pc' = "incremental"
          /\ run.backup_type = "full"
          /\ DayOfMonth(now) = 1
          /\ Cardinality(rdirs) > months_to_keep ) =>
          /\ \A r \in ledger \ ledger' : r.remote_path.month \in rdirs \ rdirs'
          /\ \A r \in ledger' : r.remote_path.month \notin rdirs \ rdirs'
      ]_vars

\* A purge whose commands all succeed leaves exactly the newest months and
\* keeps the ledger in step with the directories.
C17_NewestMonthsRemain ==
    [][ ( /\ pc = "monthly" /\ pc' = "incremental"
          /\ run.backup_type = "full"
          /\ DayOfMonth(now) = 1
          /\ Cardinality(rdirs) > months_to_keep
          /\ faults' = faults ) =>
          /\ rdirs' = {m \in rdirs : Cardinality({n \in rdirs : n > m}) < months_to_keep}
          /\ \A r \in ledger \ ledger' : r.remote_path.month \in rdirs \ rdirs'
          /\ \A r \in ledger' : r.remote_path.month \notin rdirs \ rdirs'
      ]_vars

\* The purge is about to run over two month directories, the older one
\* holding recorded artifacts.
C17_PurgeWithOldMonthRecorded ==
    /\ pc = "monthly"
    /\ run.backup_type = "full"
    /\ DayOfMonth(now) = 1
    /\ Cardinality(rdirs) > months_to_keep
    /\ \E r \in ledger : r.remote_path.month \in OldMonths

\* C18: every incremental artifact stored under a month directory other than
\* the current month that has not been evicted by the monthly purge still
\* exists on the remote host and still has its ledger row: neither the
\* incremental purge nor the orphan purge removes the row or the recorded file.
C18_OlderMonthIncrementalsKept ==
    [][ (pc = "incremental" \/ pc = "cleanup_failed_uploads") =>
          \A r \in ledger :
              ( /\ r.backup_type = "incremental"
                /\ r.remote_path.month # MonthOf(now)
                /\ r.remote_path.month \in rdirs' ) =>
                  ( /\ r \in ledger'
                    /\ \A f \in remote : (f.path = r.remote_path => f \in remote') )
      ]_vars

\* The incremental purge is about to run while the ledger holds an incremental
\* row of an earlier, still existing month that is older than the window.
C18_OldIncrementalInEarlierMonth ==
    /\ pc = "incremental"
    /\ \E r \in ExpiredIncrementalRows :
          /\ r.remote_path.month # MonthOf(now)
          /\ r.remote_path.month \in rdirs
          /\ \E f \in remote : f.path = r.remote_path

\* C19: the incremental purge never deletes a full remote artifact and never
\* deletes a ledger row of kind full.
C19_IncrementalPurgeSparesFulls ==
    [][ pc = "incremental" =>
          /\ \A f \in remote \ remote' : f.path.kind # "full"
          /\ \A r \in ledger \ ledger' : r.backup_type # "full"
      ]_vars

\* The incremental purge has run past a full row and a full artifact older
\* than the window, and both are still there.
C19_OldFullSurvivesPurge ==
    /\ pc = "local"
    /\ \E r \in ledger :
          /\ r.backup_type = "full"
          /\ r.sent_at < now - daily_incremental_days * HoursPerDay
          /\ r.remote_path.month = MonthOf(now)
          /\ \E f \in remote :
                /\ f.path = r.remote_path
                /\ (now - f.mtime) \div HoursPerDay > daily_incremental_days
    /\ \E r \in ledger : r.backup_type = "incremental"

\* The position of a step in perform_backup.
Phase(p) ==
    CASE p = "cleanup_failed_uploads" -> 1
      [] p = "determine" -> 2
      [] p = "create_snapshots" -> 3
      [] p = "connect" -> 4
      [] p \in UploadSteps \cup {"loop"} -> 5
      [] p = "verify_backups" -> 6
      [] p = "monthly" -> 7
      [] p = "incremental" -> 8
      [] p = "local" -> 9
      [] p = "finalize" -> 10
      [] OTHER -> 11

\* C20: within one backup run the phases occur in a fixed order: the orphan
\* purge completes before the first upload starts; subvolumes are uploaded in
\* the configured order; all uploads end before any retention phase; and
\* retention runs the monthly purge (only when the run is full and it is day
\* 1), then the incremental purge, then local snapshot aging.
C20_PhasesInOrder ==
    [][ /\ (pc # "idle" /\ pc' # "idle") => Phase(pc') >= Phase(pc)
        /\ pc = "cleanup_failed_uploads" =>
              (run.snapshots = <<>> /\ run.subvolume_results = <<>>)
        /\ pc' = "pipeline" => pc \in {"loop", "pipeline"}
        /\ pc' \in UploadSteps =>
              /\ run'.i \in DOMAIN Subvolumes
              /\ run'.snapshots[run'.i].subvolume = Subvolumes[run'.i]
              /\ Len(run'.subvolume_results) = run'.i - 1
        /\ \A k \in DOMAIN run'.subvolume_results :
              run'.subvolume_results[k].subvolume = Subvolumes[k]
        /\ pc' \in {"monthly", "incremental", "local"} =>
              /\ Len(run'.subvolume_results) = Len(Subvolumes)
              /\ run'.upload = NoUpload
        /\ pc' = "incremental" => pc \in {"monthly", "incremental"}
        /\ pc' = "local" => pc \in {"incremental", "local"}
        /\ pc' = "finalize" => pc \in {"local", "finalize"}
        /\ (pc = "monthly" /\ <<ledger, remote, rdirs, faults>>' # <<ledger, remote, rdirs, faults>>)
              => (run.backup_type = "full" /\ DayOfMonth(now) = 1)
        /\ (pc \in {"monthly", "incremental"}) => local' = local
        /\ (pc = "local") => <<ledger, remote, rdirs>>' = <<ledger, remote, rdirs>>
      ]_vars

\* A full run on day 1 has uploaded both subvolumes and gone through the three
\* retention phases; the monthly purge has evicted the earlier month.
C20_FullRunOnDayOneRetained ==
    /\ pc = "finalize"
    /\ run.backup_type = "full"
    /\ DayOfMonth(now) = 1
    /\ MonthOf(now) = 1
    /\ rdirs = {1}
    /\ Len(run.subvolume_results) = 2
    /\ \A k \in 1..2 : run.subvolume_results[k].success

\* C21: for a run that reaches final aggregation, the status is success if
\* and only if every subvolume sub-result succeeded, partial if and only if at
\* least one but not all succeeded, and failed if and only if none succeeded.
\* (A run reaches aggregation exactly when result.subvolumes has been set.)
C21_StatusAggregatesSubResults ==
    (pc = "finally" /\ run.result_subvolumes # <<>>) =>
        LET res == run.result_subvolumes
            ok == {k \in DOMAIN res : res[k].success}
        IN /\ run.status = "success" <=> ok = DOMAIN res
           /\ run.status = "partial" <=> (ok # {} /\ ok # DOMAIN res)
           /\ run.status = "failed" <=> ok = {}
           /\ run.status \in {"success", "partial", "failed"}

\* An aggregated run in which @ succeeded and @home did not.
C21_AggregatedPartial ==
    /\ pc = "finally"
    /\ Len(run.result_subvolumes) = 2
    /\ run.result_subvolumes[1].success
    /\ ~run.result_subvolumes[2].success
    /\ run.status = "partial"

\* C22: a failure of one subvolume's upload (pipeline, transfer, remote
\* directory creation or size verification) does not abort the run: the loop
\* goes on to the next subvolume, which is attempted unless the run is
\* cancelled, and a run in which @ succeeds and @home fails ends with status
\* partial with a ledger row for @ only.
C22_FailureDoesNotAbort ==
    [][ /\ ( /\ pc \in UploadSteps
             /\ Len(run'.subvolume_results) > Len(run.subvolume_results)
             /\ ~run'.subvolume_results[Len(run'.subvolume_results)].success ) =>
               (pc' = "loop" /\ run'.i = run.i + 1 /\ run'.error = "")
        /\ ( /\ pc = "loop" /\ pc' # "loop"
             /\ ~cancel_requested
             /\ run.i <= Len(run.snapshots) ) =>
               (pc' = "pipeline" /\ run'.upload.remote_file.subvolume = Subvolumes[run.i])
        /\ ( /\ pc = "finalize" /\ pc' = "finally"
             /\ run.subvolume_results[1].success
             /\ ~run.subvolume_results[2].success ) =>
               /\ run'.status = "partial"
               /\ is_snapshot_sent(run.snapshots[1])
               /\ ~is_snapshot_sent(run.snapshots[2])
      ]_vars

\* The part of C22 that concerns the loop alone: a failed upload moves the
\* loop to the next subvolume, which is attempted unless the run is cancelled,
\* and when the loop ends after @ succeeded and @home failed, the status is
\* partial and the ledger holds a row for @ only.
C22_LoopContinuesAfterFailure ==
    [][ /\ ( /\ pc \in UploadSteps
             /\ Len(run'.subvolume_results) > Len(run.subvolume_results)
             /\ ~run'.subvolume_results[Len(run'.subvolume_results)].success ) =>
               (pc' = "loop" /\ run'.i = run.i + 1 /\ run'.error = "")
        /\ ( /\ pc = "loop" /\ pc' # "loop"
             /\ ~cancel_requested
             /\ run.i <= Len(run.snapshots) ) =>
               (pc' = "pipeline" /\ run'.upload.remote_file.subvolume = Subvolumes[run.i])
        /\ ( /\ pc = "loop" /\ pc' = "verify_backups"
             /\ run.subvolume_results[1].success
             /\ ~run.subvolume_results[2].success ) =>
               /\ run.status = "partial"
               /\ is_snapshot_sent(run.snapshots[1])
               /\ ~is_snapshot_sent(run.snapshots[2])
        /\ ( /\ pc = "finalize" /\ pc' = "finally"
             /\ run.subvolume_results[1].success
             /\ ~run.subvolume_results[2].success ) => run'.status = "partial"
      ]_vars

\* A run in which @ succeeded and @home failed has reached its end with
\* status partial, and the ledger holds no row for the snapshot of @.
C22_RootRowGoneAtEnd ==
    /\ pc = "finally"
    /\ run.status = "partial"
    /\ run.result_subvolumes[1].success
    /\ ~run.result_subvolumes[2].success
    /\ run.result_subvolumes[2].error \in {"pipeline", "transfer", "verify"}
    /\ ~is_snapshot_sent(run.snapshots[1])

\* C23: if writing the ledger row fails for a subvolume after its upload was
\* verified, the failure is fatal for the run: the run ends with status failed
\* (never success or partial), and the uploaded artifact is left without a
\* ledger row.
C23_LedgerWriteFailureIsFatal ==
    (pc = "finally" /\ \E k \in DOMAIN run.subvolume_results :
                           run.subvolume_results[k].error = "ledger") =>
        /\ run.status = "failed"
        /\ \A k \in DOMAIN run.subvolume_results :
              run.subvolume_results[k].error = "ledger" =>
                  ~is_snapshot_sent(run.snapshots[k])

\* A run in which the ledger write of one subvolume failed has ended with
\* status partial, the other subvolume being recorded.
C23_PartialAfterLedgerFailure ==
    /\ pc = "finally"
    /\ run.status = "partial"
    /\ \E k \in DOMAIN run.result_subvolumes :
          /\ run.result_subvolumes[k].error = "ledger"
          /\ ~is_snapshot_sent(run.snapshots[k])
    /\ \E k \in DOMAIN run.result_subvolumes : run.result_subvolumes[k].success

\* C24: a listing or deletion error in any cleanup phase (pre-run orphan
\* purge, monthly purge, incremental purge, local snapshot aging) is
\* non-fatal: the run continues with the next step and its final status is the
\* one determined by the per-subvolume results alone.
C24_CleanupErrorsNonFatal ==
    [][ /\ (pc = "cleanup_failed_uploads" /\ pc' # pc /\ ~cancel_requested)
              => (pc' = "determine" /\ run' = run)
        /\ (pc = "monthly" /\ pc' # pc) => (pc' = "incremental" /\ run' = run)
        /\ (pc = "incremental" /\ pc' # pc) => (pc' = "local" /\ run' = run)
        /\ (pc = "local" /\ pc' # pc) => (pc' = "finalize" /\ run' = run)
        /\ (pc' = "finally" /\ pc # pc' /\ Len(run.subvolume_results) = Len(Subvolumes)) =>
              LET res == run.subvolume_results
                  ok == {k \in DOMAIN res : res[k].success}
              IN run'.status = IF ok = DOMAIN res THEN "success"
                               ELSE IF ok # {} THEN "partial" ELSE "failed"
      ]_vars

\* A run whose two uploads succeeded has ended with status failed.
C24_FailedAfterSuccessfulUploads ==
    /\ pc = "finally"
    /\ Len(run.subvolume_results) = 2
    /\ \A k \in 1..2 : run.subvolume_results[k].success
    /\ run.status = "failed"
    /\ run.error = "Failed to list snapshots"

C28_ProgressMonotone ==
    [][ /\ (pc' # "idle" /\ current_backup' # current_backup) =>
              /\ current_backup'.current_step_num \in 1..7
              /\ current_backup'.total_steps = 7
              /\ current_backup'.percentage \in 0..100
        /\ (pc # "idle" /\ pc' # "idle") =>
              /\ current_backup'.percentage >= current_backup.percentage
              /\ current_backup'.current_step_num >= current_backup.current_step_num
      ]_vars

\* A run has published all its snapshots, the one of each subvolume included,
\* up to "Backup complete".
C28_AllStepsPublished ==
    /\ pc = "finally"
    /\ current_backup = Progress(7, 100)
    /\ Len(run.subvolume_results) = 2
    /\ run.no = 2

\* A task published a progress snapshot in this step.
Published ==
    \E i \in DOMAIN runs' :
        runs'[i].step > (IF i \in DOMAIN runs THEN runs[i].step ELSE 0)

\* C29: every progress snapshot published by a running backup (started
\* through the API or by the scheduler) is delivered to every client that is
\* connected to /ws/progress at the moment of publication.
C29_ProgressReachesClients ==
    [][ Published => \A c \in progress_connections : received'[c] = received[c] + 1
      ]_vars

\* Both clients are connected, an API run and a scheduled run have published
\* all their snapshots, and no client has received one.
C29_ConnectedButSilent ==
    /\ progress_connections = Clients
    /\ \E i \in DOMAIN runs : runs[i].origin = "api" /\ runs[i].step = 7
    /\ \E i \in DOMAIN runs : runs[i].origin = "cron" /\ runs[i].step = 7
    /\ \A c \in Clients : received[c] = 0

(***************************************************************************)
(* Properties: scratch state and restores (checked under SpecRestore)      *)
(***************************************************************************)
\* C26: every exit of a per-subvolume upload (success, pipeline failure,
\* transfer failure, verification mismatch, exception) leaves no staged
\* scratch file behind, and every exit of a per-subvolume restore removes
\* its scratch directory: the temp file exists only between the pipeline and
\* the end of the verification, the scratch directory only between the
\* download and the end of the receive.
C26_ScratchCleanedOnEveryExit ==
    /\ (pc \notin {"transfer", "verify"}) => run.temp_file = 0
    /\ (rpc \notin {"download", "decrypt", "receive"}) => temp_dir = NoDir

\* An upload left by a verification mismatch made the run partial; a restore
\* of both subvolumes has then failed on one (its file does not decrypt) and
\* received the other, and no scratch file or directory is left.
C26_FailedAndGoodExits ==
    /\ rpc = "finally" /\ Len(restore.results) = 2
    /\ \E k \in 1..2 : restore.results[k].error = "Decryption failed"
    /\ \E k \in 1..2 : restore.results[k].success
    /\ \E h \in DOMAIN history : history[h].status = "partial"
    /\ run.temp_file = 0 /\ temp_dir = NoDir

\* C30: a restore with verify_only set never downloads, decrypts or receives
\* anything (no scratch directory is made, nothing is received, the remote
\* side is left as it is); each requested subvolume gets one result, which
\* is success exactly when the inspection of the first bytes recognised the
\* GPG envelope, and then carries the remote size.
C30_VerifyOnlyInspectsOnly ==
    [][ (restore'.verify_only /\ rpc' # "idle") =>
          /\ rpc' \in {"subvolume", "integrity", "finally"}
          /\ temp_dir' = NoDir /\ temp_dir = NoDir
          /\ restored' = restored /\ remote' = remote
          /\ \A k \in DOMAIN restore'.results :
                LET res == restore'.results[k]
                IN /\ res.subvolume = restore'.subvolumes[k]
                   /\ res.success <=> res.observed = "GPG symmetrically encrypted data"
                   /\ res.success =>
                        res.size = RemoteSize(RestoreFile(res.subvolume,
                                        restore'.backup_type, restore'.backup_date), TRUE)
                   /\ res.restored_to = None
          /\ (restore'.outcome = "success") =>
                \A k \in DOMAIN restore'.results : restore'.results[k].success
      ]_vars

\* A verify-only restore of both subvolumes has found one file with the GPG
\* envelope and one without (an empty file left by a cut transfer).
C30_VerifiedOneRejectedOne ==
    /\ rpc = "finally" /\ restore.verify_only /\ Len(restore.results) = 2
    /\ \E k \in 1..2 : restore.results[k].success /\ restore.results[k].size > 0
    /\ \E k \in 1..2 : /\ ~restore.results[k].success
                       /\ restore.results[k].observed = "empty"
    /\ temp_dir = NoDir /\ restored = {}

(***************************************************************************)
(* Properties: orphans, termination, ledger and remote side (Spec)         *)
(***************************************************************************)
\* C31: a remote artifact left behind by a failed upload, whose path no
\* ledger row references, is deleted by the orphan purge of the first later
\* run that starts after the artifact is older than one hour, provided the
\* remote listing, stat and delete commands succeed: the purge step of a run
\* that meets no failure leaves no unreferenced file older than one hour.
C31_OldOrphansPurged ==
    [][ (pc = "cleanup_failed_uploads" /\ pc' # pc /\ faults' = faults) =>
          \A f \in remote :
             ( /\ \A r \in ledger : r.remote_path # f.path
               /\ now - f.mtime > 1 ) => f \notin remote'
      ]_vars

\* The second run is past its orphan purge two hours after a first run that
\* ended partial (one upload was left unverified on the remote side): only
\* referenced files remain.
C31_OrphanGoneInSecondRun ==
    /\ pc = "determine" /\ run.no = 2 /\ now = 2 /\ faults = 1
    /\ Len(history) = 1 /\ history[1].status = "partial"
    /\ Cardinality(remote) = 1 /\ Orphans = {}
    /\ \A f \in remote : f.mtime = 0

\* C32: every started backup run eventually reaches its end (history row
\* written, single-flight slot released) even if the remote host stops
\* responding.
C32_EveryRunEnds == (pc # "idle") ~> (pc = "idle")

\* The run waits on the transfer to a host that no longer answers.
C32_WaitingForever == hung /\ pc = "transfer" /\ run.temp_file > 0

\* C33: at every intermediate state of the monthly purge no ledger row has
\* a remote path under a month directory that has already been deleted: the
\* ledger rows of a month are removed before that month's directory is.
C33_RowsGoBeforeDirectory ==
    /\ \A r \in ledger : r.remote_path.month \notin purge.removed
    /\ \A r \in ledger : r.remote_path.month \in rdirs

\* In the middle of a purge over three months: the newer of the two months
\* beyond retention has lost its rows and its directory, the older still
\* has both, and the newest month keeps its rows.
C33_BetweenTwoMonths ==
    /\ purge.pc = "loop" /\ Len(purge.months) = 1 /\ purge.step = 1
    /\ purge.removed # {} /\ purge.removed \cap rdirs = {}
    /\ \E r \in ledger : r.remote_path.month = Head(purge.months)
    /\ \E r \in ledger : r.remote_path.month \notin (purge.removed \cup {Head(purge.months)})

\* C34: the history row and the result of a run record a sub-result for
\* every subvolume whose upload was attempted in that run, also when the run
\* ends by cancellation or by an exception after some subvolumes were
\* processed: a subvolume that completed before the cancel is recorded as a
\* success in the run's per-subvolume results.
C34_AttemptedSubvolumesRecorded ==
    [][ (pc = "finally" /\ pc' = "idle") =>
          /\ Len(run.result_subvolumes) = Len(run.subvolume_results)
          /\ \A k \in DOMAIN run.subvolume_results :
                /\ run.result_subvolumes[k].subvolume = run.subvolume_results[k].subvolume
                /\ run.result_subvolumes[k].success = run.subvolume_results[k].success
          /\ history' # history =>
                LET row == history'[Len(history')]
                IN /\ Len(row.subvolumes) = Len(run.subvolume_results)
                   /\ \A k \in DOMAIN run.subvolume_results :
                         /\ row.subvolumes[k].subvolume = run.subvolume_results[k].subvolume
                         /\ row.subvolumes[k].success = run.subvolume_results[k].success
      ]_vars

\* The run was cancelled after '@' had been uploaded and recorded; its result
\* carries no sub-result at all.
C34_CompletedSubvolumeLost ==
    /\ pc = "finally"
    /\ run.error = "Backup cancelled by user"
    /\ Len(run.subvolume_results) = 1 /\ run.subvolume_results[1].success
    /\ \E r \in ledger : r.snapshot_path = SnapshotPath("@", run.no)
    /\ run.result_subvolumes = <<>>

\* C35: the single-flight slot is always released: after any perform_backup
\* execution ends (success, partial, failure, cancellation, or a failure
\* while saving the history row) current_backup is none.
C35_SlotAlwaysReleased ==
    [][ (pc = "finally" /\ pc' = "idle") => current_backup' = NoProgress ]_vars

\* No run is active, the last one left no history row, and the slot still
\* holds its last progress snapshot.
C35_SlotStuck ==
    /\ pc = "idle" /\ run.no > 0
    /\ current_backup # NoProgress
    /\ Len(history) < run.no

\* C36: no two ledger rows have the same remote artifact path, and an
\* upload never overwrites a remote artifact that an existing ledger row
\* references, also when two runs of the same kind happen on the same
\* calendar day.
C36_RemotePathsUnique ==
    [][ /\ \A r1, r2 \in ledger' : r1.remote_path = r2.remote_path => r1 = r2
        /\ (pc = "transfer" /\ remote' # remote) =>
              \A r \in ledger : r.remote_path # run.upload.remote_file
      ]_vars

\* Two snapshots of '@', taken by two runs of the same day, are recorded
\* under one remote path.
C36_TwoRowsOnePath ==
    \E r1, r2 \in ledger :
       /\ r1.remote_path = r2.remote_path
       /\ r1.snapshot_path.subvolume = "@" /\ r2.snapshot_path.subvolume = "@"
       /\ r1.snapshot_path.timestamp < r2.snapshot_path.timestamp

\* C37: for every ledger row whose remote artifact has not been removed by a
\* purge, the remote file at the row's remote path has exactly the size
\* recorded in the row, after any sequence of later runs.
C37_RecordedSizeIsRemoteSize ==
    \A r \in ledger : \A f \in remote :
       f.path = r.remote_path => f.size = r.size_bytes

\* A later run of the same day cut its transfer short over the artifact of a
\* recorded snapshot: the row stays, the file is shorter than recorded.
C37_RecordedFileCutShort ==
    /\ pc = "finally" /\ run.no = 2 /\ run.status = "partial"
    /\ \E r \in ledger : \E f \in remote :
          /\ f.path = r.remote_path /\ f.size < r.size_bytes
          /\ r.snapshot_path.timestamp = 1

\* The text of the cancellation error.
CancelledText == "Backup cancelled by user"

\* C38: a cancel request affects only the run during which it was issued:
\* perform_backup clears the flag when it starts, so a run started after a
\* cancelled run has ended is not cancelled unless cancel_backup is called
\* again during it: the runs that ended cancelled, the current one included,
\* are never more than the cancel requests issued.
C38_CancelIsPerRun ==
    Cardinality({k \in DOMAIN history : history[k].error_message = CancelledText})
      + (IF run.error = CancelledText THEN 1 ELSE 0) <= cancels

\* The first run was cancelled and left the flag set; the second run, with
\* no further request, has passed all its checks and ended a success.
C38_NextRunNotCancelled ==
    /\ pc = "finally" /\ run.no = 2 /\ run.status = "success"
    /\ Len(history) = 1 /\ history[1].error_message = CancelledText
    /\ cancels = 1 /\ ~cancel_requested

\* C39: for every incremental ledger row r, r.parent is a snapshot of the
\* same subvolume as r with a strictly earlier timestamp than r's snapshot
\* (never the snapshot being uploaded and never a snapshot of another
\* subvolume), so parent links in the ledger never form a cycle.
C39_ParentIsEarlierSameSubvolume ==
    \A r \in ledger :
       r.backup_type = "incremental" =>
          /\ r.parent_snapshot # r.snapshot_path
          /\ r.parent_snapshot.subvolume = r.snapshot_path.subvolume
          /\ r.parent_snapshot.timestamp < r.snapshot_path.timestamp

\* Both subvolumes have an incremental row of the second run, each with its
\* own snapshot of the first run as parent.
C39_IncrementalsOfBothSubvolumes ==
    /\ \E r \in ledger : /\ r.backup_type = "incremental"
                         /\ r.snapshot_path = SnapshotPath("@", 2)
                         /\ r.parent_snapshot = SnapshotPath("@", 1)
    /\ \E r \in ledger : /\ r.backup_type = "incremental"
                         /\ r.snapshot_path = SnapshotPath("@home", 2)
                         /\ r.parent_snapshot = SnapshotPath("@home", 1)

====
